---- MODULE Spec2Model ----
(***************************************************************************)
(* Model of libbitcoin::system::secure_random (src/crypto/secure_random.cpp) *)
(*                                                                         *)
(* State: the per-thread slot of the function-local                        *)
(* boost::thread_specific_ptr<std::random_device> of get_csrng(), the heap *)
(* of std::random_device objects it owns, and for every thread the public  *)
(* call it is executing (fill, next, duration) with the position inside    *)
(* that call.  History variables (creator, handed, deletes, draws, ...)    *)
(* record who constructed, obtained, used and released each object.        *)
(***************************************************************************)
EXTENDS Integers, Sequences, FiniteSets, TLC

\* ---------------------------------------------------------------- bounds
NumThreads == 2
MaxCalls == 2
MaxLen == 2
MaxMs == 12

\* ------------------------------------------------------ program constants
\* minimum<uint8_t>, maximum<uint8_t>
MinByte == 0
MaxByte == 255
\* number of values of uint8_t (the static_cast<uint8_t> narrowing)
ByteValues == 256
\* ticks of steady_clock::duration (nanoseconds) per millisecond
TicksPerMs == 1000000

NULL == 0
Threads == 1..NumThreads
MaxHandles == NumThreads + 1
Handles == 1..MaxHandles
Byte == MinByte..MaxByte

VARIABLES
    alive,          \* alive[t]: thread t has not terminated
    aborted,        \* std::terminate was called: the process is gone
    pc,             \* pc[t]: "idle" | "get_csrng" | "draw" | "terminate"
    op,             \* op[t]: the public call in progress or last finished
    outcome,        \* outcome[t]: how that call ended, as its caller sees it
    calls,          \* calls[t]: public calls started by t
    given,          \* given[t]: the data_chunk as it was passed to fill
    out,            \* out[t]: the data_chunk passed to fill, as it is now
    idx,            \* idx[t]: position of std::transform in out[t]
    lo, hi,         \* the (begin, end) of the distribution being sampled
    expiration,     \* duration(): the expiration argument, in ticks
    ratio,          \* duration(): the ratio argument
    ret,            \* ret[t]: value returned by next/duration
    csrng,          \* csrng[t]: thread t's slot of the thread_specific_ptr
    ref,            \* ref[t]: the reference get_csrng returned to t
    state,          \* state[h]: "free" | "live" | "deleted"
    creator,        \* creator[h]: thread that ran new std::random_device()
    deletes,        \* deletes[h]: times the deleter ran on h
    releasers,      \* releasers[h]: threads whose exit deleted h
    draws,          \* draws[h]: samples drawn from h
    handed,         \* handed[t]: every handle get_csrng returned to t
    constructions,  \* constructions[t]: objects constructed by t
    drawn           \* drawn[t]: the samples t's current call drew, in order

vars == <<alive, aborted, pc, op, outcome, calls, given, out, idx, lo, hi,
          expiration, ratio, ret, csrng, ref, state, creator, deletes,
          releasers, draws, handed, constructions, drawn>>

callVars == <<op, outcome, calls, given, out, idx, lo, hi, expiration, ratio,
              ret, drawn>>
heapVars == <<csrng, state, creator, deletes, releasers, constructions>>

\* ------------------------------------------------------------ pure parts

\* std::uniform_int_distribution<uint16_t>(begin, end): the values it can
\* produce (precondition begin <= end).
Distribution(begin, end) == begin..end

\* secure_random::next<uint64_t>(begin, end), declared in the header: the
\* values it can return, drawn from the calling thread's source
Sample64(begin, end) == begin..end

\* mutant of Narrow: the cast keeps seven bits
NarrowSeven(v) == v % 128

\* static_cast<uint8_t>(uint16_t)
Narrow(v) == v % ByteValues

\* duration_cast<milliseconds>(expiration).count(), expiration >= 0
DurationCastMs(e) == e \div TicksPerMs

\* milliseconds(n) converted to steady_clock::duration
Milliseconds(n) == n * TicksPerMs

\* const auto limit = max_expire / ratio;
Limit(e, r) == DurationCastMs(e) \div r

\* mutant of Degenerate: the limit is not tested
DegenerateRatioOnly(e, r) == r = 0

\* mutant of Degenerate: the expiration is tested in place of the limit
DegenerateZeroExpiration(e, r) == IF r = 0 THEN TRUE ELSE e = 0

\* duration() returns without sampling
Degenerate(e, r) == IF r = 0 THEN TRUE ELSE Limit(e, r) = 0

\* mutant of Expires: the offset is added
ExpiresAdded(e, offset) == (e \div TicksPerMs + offset) * TicksPerMs

\* milliseconds(max_expire - random_offset)
Expires(e, offset) == Milliseconds(DurationCastMs(e) - offset)

\* mutant of Store: every result goes to the first position
StoreFirst(buf, i, b) == [buf EXCEPT ![1] = b]

\* std::transform writes the result for the element at position i to
\* position i of the output range, which here is the input range
Store(buf, i, b) == [buf EXCEPT ![i] = b]

\* the samples of [a, b] explored by the thread-lifecycle specification:
\* the two ends of the range
Probe(a, b) == {a, b}

\* ------------------------------------------------------------------ Init
Init ==
    /\ alive = [t \in Threads |-> TRUE]
    /\ aborted = FALSE
    /\ pc = [t \in Threads |-> "idle"]
    /\ op = [t \in Threads |-> "none"]
    /\ outcome = [t \in Threads |-> "none"]
    /\ calls = [t \in Threads |-> 0]
    /\ given = [t \in Threads |-> <<>>]
    /\ out = [t \in Threads |-> <<>>]
    /\ idx = [t \in Threads |-> 0]
    /\ lo = [t \in Threads |-> 0]
    /\ hi = [t \in Threads |-> 0]
    /\ expiration = [t \in Threads |-> 0]
    /\ ratio = [t \in Threads |-> 0]
    /\ ret = [t \in Threads |-> 0]
    /\ csrng = [t \in Threads |-> NULL]
    /\ ref = [t \in Threads |-> NULL]
    /\ state = [h \in Handles |-> "free"]
    /\ creator = [h \in Handles |-> NULL]
    /\ deletes = [h \in Handles |-> 0]
    /\ releasers = [h \in Handles |-> {}]
    /\ draws = [h \in Handles |-> 0]
    /\ handed = [t \in Threads |-> {}]
    /\ constructions = [t \in Threads |-> 0]
    /\ drawn = [t \in Threads |-> <<>>]


\* ------------------------------------------------------- thread statics

\* mutant of SlotOf: one pointer for the whole process (a plain static)
SharedSlot(t) == 1

\* boost::thread_specific_ptr keeps one pointer per thread: the slot that
\* thread t reads and writes through csrng.get() / csrng.reset().
SlotOf(t) == t

\* mutant of NeedsConstruction: the pointer is not tested
AlwaysConstruct(t) == TRUE

\* if (csrng.get() == nullptr)
NeedsConstruction(t) == csrng[SlotOf(t)] = NULL

\* mutant of Deleter: the object is not deleted
DeleterLeak(st, h) == st

\* const auto deleter = [](std::random_device* csrng) { delete csrng; };
Deleter(st, h) == [st EXCEPT ![h] = "deleted"]

\* operator new: the object it returns is none of the existing ones
FreeHandles == {h \in Handles : state[h] = "free"}
NewHandle == CHOOSE h \in FreeHandles : \A g \in FreeHandles : h <= g

\* public calls started so far, by all threads
RECURSIVE CallsOf(_)
CallsOf(T) ==
    IF T = {} THEN 0
    ELSE LET t == CHOOSE x \in T : TRUE IN calls[t] + CallsOf(T \ {t})

\* a public call may start: the thread runs, is between calls, and the
\* process has not been terminated (at most MaxCalls calls are explored)
Begin(t) ==
    /\ ~aborted
    /\ alive[t]
    /\ pc[t] = "idle"
    /\ CallsOf(Threads) < MaxCalls

\* ------------------------------------------------------------- get_csrng

\* get_csrng(), construction succeeding: returns *csrng
GetCsrng(t) ==
    /\ ~aborted
    /\ pc[t] = "get_csrng"
    /\ IF NeedsConstruction(t)
       THEN /\ FreeHandles # {}
            /\ LET h == NewHandle
                   old == csrng[SlotOf(t)]
                   \* csrng.reset(p) runs the deleter on a previous pointer
                   st == IF old # NULL /\ old # h
                         THEN Deleter(state, old) ELSE state
               IN /\ state' = [st EXCEPT ![h] = "live"]
                  /\ deletes' = IF old # NULL /\ old # h
                                THEN [deletes EXCEPT ![old] = @ + 1]
                                ELSE deletes
                  /\ creator' = [creator EXCEPT ![h] = t]
                  /\ csrng' = [csrng EXCEPT ![SlotOf(t)] = h]
                  /\ constructions' = [constructions EXCEPT ![t] = @ + 1]
       ELSE UNCHANGED <<state, deletes, creator, csrng, constructions>>
    /\ ref' = [ref EXCEPT ![t] = csrng'[SlotOf(t)]]
    /\ handed' = [handed EXCEPT ![t] = @ \cup {csrng'[SlotOf(t)]}]
    /\ pc' = [pc EXCEPT ![t] = "draw"]
    /\ UNCHANGED <<alive, aborted, callVars, releasers, draws>>

\* get_csrng(), new std::random_device() throwing ("This throws given
\* insufficient resources"): get_csrng is NOEXCEPT, so the exception
\* leaves no frame and std::terminate ends the process.
GetCsrngFail(t) ==
    /\ ~aborted
    /\ pc[t] = "get_csrng"
    /\ NeedsConstruction(t)
    /\ aborted' = TRUE
    /\ pc' = [pc EXCEPT ![t] = "terminate"]
    /\ outcome' = [outcome EXCEPT ![t] = "terminate"]
    /\ UNCHANGED <<alive, op, calls, given, out, idx, lo, hi, expiration,
                   ratio, ret, drawn, heapVars, ref, draws, handed>>

\* mutant of ThreadExit: no cleanup function runs
ThreadExitNoCleanup(t) ==
    /\ ~aborted
    /\ alive[t]
    /\ pc[t] = "idle"
    /\ alive' = [alive EXCEPT ![t] = FALSE]
    /\ UNCHANGED <<aborted, pc, callVars, heapVars, ref, draws, handed>>

\* Thread t ends: Boost.Thread runs the cleanup function on t's pointer.
ThreadExit(t) ==
    /\ ~aborted
    /\ alive[t]
    /\ pc[t] = "idle"
    /\ alive' = [alive EXCEPT ![t] = FALSE]
    /\ LET h == csrng[SlotOf(t)]
       IN IF h # NULL
          THEN /\ state' = Deleter(state, h)
               /\ deletes' = [deletes EXCEPT ![h] = @ + 1]
               /\ releasers' = [releasers EXCEPT ![h] = @ \cup {t}]
               /\ csrng' = [csrng EXCEPT ![SlotOf(t)] = NULL]
          ELSE UNCHANGED <<state, deletes, releasers, csrng>>
    /\ UNCHANGED <<aborted, pc, callVars, ref, creator, draws, handed,
                   constructions>>

\* ------------------------------------------------------------ public API

\* void secure_random::fill(data_chunk& out): std::transform over out
CallFill(t, buf) ==
    /\ Begin(t)
    /\ op' = [op EXCEPT ![t] = "fill"]
    /\ calls' = [calls EXCEPT ![t] = @ + 1]
    /\ given' = [given EXCEPT ![t] = buf]
    /\ out' = [out EXCEPT ![t] = buf]
    /\ idx' = [idx EXCEPT ![t] = 1]
    /\ drawn' = [drawn EXCEPT ![t] = <<>>]
    /\ ret' = [ret EXCEPT ![t] = 0]
    /\ expiration' = [expiration EXCEPT ![t] = 0]
    /\ ratio' = [ratio EXCEPT ![t] = 0]
    /\ IF Len(buf) = 0
       THEN /\ pc' = [pc EXCEPT ![t] = "idle"]
            /\ outcome' = [outcome EXCEPT ![t] = "returned"]
            /\ lo' = [lo EXCEPT ![t] = 0]
            /\ hi' = [hi EXCEPT ![t] = 0]
       ELSE \* the lambda: return next();
            /\ pc' = [pc EXCEPT ![t] = "get_csrng"]
            /\ outcome' = [outcome EXCEPT ![t] = "pending"]
            /\ lo' = [lo EXCEPT ![t] = MinByte]
            /\ hi' = [hi EXCEPT ![t] = MaxByte]
    /\ UNCHANGED <<alive, aborted, heapVars, ref, draws, handed>>

\* uint8_t secure_random::next(uint8_t begin, uint8_t end)
CallNextRange(t, begin, end) ==
    /\ Begin(t)
    /\ begin <= end
    /\ op' = [op EXCEPT ![t] = "next"]
    /\ calls' = [calls EXCEPT ![t] = @ + 1]
    /\ given' = [given EXCEPT ![t] = <<>>]
    /\ out' = [out EXCEPT ![t] = <<>>]
    /\ idx' = [idx EXCEPT ![t] = 0]
    /\ drawn' = [drawn EXCEPT ![t] = <<>>]
    /\ ret' = [ret EXCEPT ![t] = 0]
    /\ expiration' = [expiration EXCEPT ![t] = 0]
    /\ ratio' = [ratio EXCEPT ![t] = 0]
    /\ lo' = [lo EXCEPT ![t] = begin]
    /\ hi' = [hi EXCEPT ![t] = end]
    /\ pc' = [pc EXCEPT ![t] = "get_csrng"]
    /\ outcome' = [outcome EXCEPT ![t] = "pending"]
    /\ UNCHANGED <<alive, aborted, heapVars, ref, draws, handed>>

\* uint8_t secure_random::next()
CallNext(t) == CallNextRange(t, MinByte, MaxByte)

\* steady_clock::duration secure_random::duration(expiration, ratio)
CallDuration(t, e, r) ==
    /\ Begin(t)
    /\ op' = [op EXCEPT ![t] = "duration"]
    /\ calls' = [calls EXCEPT ![t] = @ + 1]
    /\ given' = [given EXCEPT ![t] = <<>>]
    /\ out' = [out EXCEPT ![t] = <<>>]
    /\ idx' = [idx EXCEPT ![t] = 0]
    /\ drawn' = [drawn EXCEPT ![t] = <<>>]
    /\ expiration' = [expiration EXCEPT ![t] = e]
    /\ ratio' = [ratio EXCEPT ![t] = r]
    /\ IF Degenerate(e, r)
       THEN \* return expiration;
            /\ ret' = [ret EXCEPT ![t] = e]
            /\ pc' = [pc EXCEPT ![t] = "idle"]
            /\ outcome' = [outcome EXCEPT ![t] = "returned"]
            /\ lo' = [lo EXCEPT ![t] = 0]
            /\ hi' = [hi EXCEPT ![t] = 0]
       ELSE \* secure_random::next<uint64_t>(zero, limit)
            /\ ret' = [ret EXCEPT ![t] = 0]
            /\ pc' = [pc EXCEPT ![t] = "get_csrng"]
            /\ outcome' = [outcome EXCEPT ![t] = "pending"]
            /\ lo' = [lo EXCEPT ![t] = 0]
            /\ hi' = [hi EXCEPT ![t] = Limit(e, r)]
    /\ UNCHANGED <<alive, aborted, heapVars, ref, draws, handed>>

\* the values the call in progress can draw
Samples(t) ==
    IF op[t] = "duration"
    THEN Sample64(lo[t], hi[t])
    ELSE Distribution(lo[t], hi[t])

\* distribution(get_csrng()) yields v, and the call continues with it
Draw(t, v) ==
    /\ ~aborted
    /\ pc[t] = "draw"
    /\ v \in Samples(t)
    /\ draws' = [draws EXCEPT ![ref[t]] = @ + 1]
    /\ drawn' = [drawn EXCEPT ![t] = Append(@, v)]
    /\ ref' = [ref EXCEPT ![t] = NULL]
    /\ IF op[t] = "fill"
       THEN /\ out' = [out EXCEPT ![t] = Store(@, idx[t], Narrow(v))]
            /\ idx' = [idx EXCEPT ![t] = @ + 1]
            /\ ret' = ret
            /\ IF idx[t] = Len(out[t])
               THEN /\ pc' = [pc EXCEPT ![t] = "idle"]
                    /\ outcome' = [outcome EXCEPT ![t] = "returned"]
               ELSE /\ pc' = [pc EXCEPT ![t] = "get_csrng"]
                    /\ outcome' = outcome
       ELSE /\ ret' = [ret EXCEPT ![t] =
                          IF op[t] = "duration"
                          THEN Expires(expiration[t], v)
                          ELSE Narrow(v)]
            /\ pc' = [pc EXCEPT ![t] = "idle"]
            /\ outcome' = [outcome EXCEPT ![t] = "returned"]
            /\ UNCHANGED <<out, idx>>
    /\ UNCHANGED <<alive, aborted, op, calls, given, lo, hi, expiration,
                   ratio, heapVars, handed>>

\* ------------------------------------------------------ specifications

\* inputs of the thread-lifecycle specification
PriorBytes == {77}
Buffers == UNION {[1..n -> PriorBytes] : n \in 0..MaxLen}
RangeArgs == {<<3, 9>>}
DurationArgs ==
    {<<5 * TicksPerMs + 1, 0>>, <<5 * TicksPerMs + 1, 10>>,
     <<10 * TicksPerMs + 1, 2>>}

Next ==
    \E t \in Threads :
        \/ \E buf \in Buffers : CallFill(t, buf)
        \/ CallNext(t)
        \/ \E p \in RangeArgs : CallNextRange(t, p[1], p[2])
        \/ \E a \in DurationArgs : CallDuration(t, a[1], a[2])
        \/ GetCsrng(t)
        \/ GetCsrngFail(t)
        \/ \E v \in Probe(lo[t], hi[t]) : Draw(t, v)
        \/ ThreadExit(t)

Spec == Init /\ [][Next]_vars


\* next(begin, end) alone, for every pair begin <= end of uint8_t and every
\* value the distribution can produce
NextOfNext ==
    \/ /\ calls[1] = 0
       /\ \E begin \in Byte :
              \E end \in begin..MaxByte : CallNextRange(1, begin, end)
    \/ GetCsrng(1)
    \/ \E v \in Samples(1) : Draw(1, v)

SpecNext == Init /\ [][NextOfNext]_vars

\* duration(expiration, ratio) alone, for expirations of whole and
\* fractional milliseconds, every ratio and every offset
Expirations ==
    {m * TicksPerMs + f : m \in 0..MaxMs, f \in {0, 1, TicksPerMs - 1}}

NextOfDuration ==
    \/ /\ calls[1] = 0
       /\ \E e \in Expirations, r \in Byte : CallDuration(1, e, r)
    \/ GetCsrng(1)
    \/ \E v \in Samples(1) : Draw(1, v)

SpecDuration == Init /\ [][NextOfDuration]_vars

\* ================================================================ claims

LiveOf(t) == {h \in Handles : state[h] = "live" /\ creator[h] = t}
Returned(t) == pc[t] = "idle" /\ outcome[t] = "returned"

\* C1: in every reachable state each thread has at most one live entropy
\* source, a live source belongs to a thread that is still running, and a
\* terminated thread has no entry in the registry.
C1_OneLiveSourcePerThread ==
    /\ \A t \in Threads :
           /\ Cardinality(LiveOf(t)) <= 1
           /\ ~alive[t] => LiveOf(t) = {} /\ csrng[t] = NULL
    /\ \A h \in Handles :
           state[h] = "live" => creator[h] \in Threads /\ alive[creator[h]]

\* one thread has terminated after acquiring a source, while another thread
\* that made two calls still holds its live source
C1_Witness ==
    \E t, u \in Threads :
        /\ ~alive[t] /\ constructions[t] = 1
        /\ alive[u] /\ Returned(u) /\ LiveOf(u) # {}

\* the threads that constructed, obtained or released handle h
ThreadsOf(h) ==
    ({creator[h]} \ {NULL}) \cup {t \in Threads : h \in handed[t] \/ ref[t] = h}
        \cup releasers[h]

\* C2: no handle is ever constructed, obtained from get_csrng, or released
\* by two different threads.
C2_NoSharedHandle ==
    /\ \A h \in Handles : Cardinality(ThreadsOf(h)) <= 1
    /\ \A t, u \in Threads :
           t # u /\ ref[t] # NULL => ref[t] # ref[u]

\* two threads are inside sampling calls at once, each holding the
\* reference get_csrng returned to it
C2_Witness ==
    \E t, u \in Threads :
        /\ t # u
        /\ pc[t] = "draw" /\ pc[u] = "draw"
        /\ ref[t] # NULL /\ ref[u] # NULL

\* C3: a thread has no entropy source before its first call that samples;
\* that call constructs it; every later call obtains the same handle; a
\* thread never constructs more than one.
C3_LazyOnce ==
    \A t \in Threads :
        /\ constructions[t] <= 1
        /\ Cardinality(handed[t]) <= 1
        /\ calls[t] = 0 => csrng[t] = NULL /\ LiveOf(t) = {}
        /\ constructions[t] = 0 => csrng[t] = NULL /\ handed[t] = {}
        /\ handed[t] # {} => constructions[t] = 1
        /\ alive[t] /\ handed[t] # {} => handed[t] = {csrng[t]}
        /\ \A h \in handed[t] : creator[h] = t
        /\ ref[t] # NULL => ref[t] = csrng[t]
        /\ alive[t] /\ Returned(t) /\ Len(drawn[t]) > 0 =>
               csrng[t] # NULL /\ constructions[t] = 1

\* a thread has finished its second sampling call, both calls drew from the
\* one source it constructed
C3_Witness ==
    \E t \in Threads :
        /\ alive[t] /\ Returned(t) /\ calls[t] >= 2
        /\ op[t] = "next"
        /\ csrng[t] # NULL /\ draws[csrng[t]] >= 2
        /\ constructions[t] = 1

\* C4: the source a thread constructed is not released while the thread
\* runs, and once the thread has terminated it has been released exactly
\* once, by that thread's exit.
C4_ReleasedOnceAtExit ==
    \A h \in Handles :
        creator[h] # NULL =>
            IF alive[creator[h]]
            THEN deletes[h] = 0 /\ state[h] = "live" /\ releasers[h] = {}
            ELSE deletes[h] = 1 /\ state[h] = "deleted"
                 /\ releasers[h] = {creator[h]}

\* a thread that drew from its source has terminated and the source is gone
C4_Witness ==
    \E h \in Handles :
        /\ creator[h] # NULL /\ ~alive[creator[h]]
        /\ draws[h] > 0 /\ state[h] = "deleted"

\* C5: next(low, high) with low <= high returns only values in [low, high],
\* every value of [low, high] is a possible result, and next(x, x) is x.
C5_NextInRange ==
    \A t \in Threads :
        /\ pc[t] = "draw" /\ op[t] = "next" =>
               {Narrow(d) : d \in Distribution(lo[t], hi[t])} = lo[t]..hi[t]
        /\ Returned(t) /\ op[t] = "next" =>
               /\ lo[t] <= ret[t] /\ ret[t] <= hi[t]
               /\ lo[t] = hi[t] => ret[t] = lo[t]

\* next(200, 255) returned 255, a value above the signed 8-bit range
C5_Witness ==
    \E t \in Threads :
        Returned(t) /\ op[t] = "next" /\ lo[t] = 200 /\ hi[t] = MaxByte
            /\ ret[t] = MaxByte

\* next(x, x) returned for a single-value range
C5_WitnessDegenerate ==
    \E t \in Threads :
        Returned(t) /\ op[t] = "next" /\ lo[t] = hi[t] /\ lo[t] = 131

\* C6: fill leaves the length of the buffer unchanged and writes position i
\* with the i-th sample it drew: positions already passed hold the narrowed
\* draws in order, positions not yet reached hold the prior contents, and on
\* return exactly N samples were drawn, each written value a byte.
C6_FillOverwritesAll ==
    \A t \in Threads :
        op[t] = "fill" /\ pc[t] \in {"idle", "get_csrng"} =>
            /\ Len(out[t]) = Len(given[t])
            /\ Len(drawn[t]) = idx[t] - 1
            /\ \A i \in 1..Len(out[t]) :
                   IF i < idx[t]
                   THEN /\ out[t][i] = drawn[t][i] % 256
                        /\ out[t][i] \in 0..255
                   ELSE out[t][i] = given[t][i]
            /\ Returned(t) => Len(drawn[t]) = Len(given[t])

\* a fill of a buffer of the largest length returned with every position
\* changed and two positions holding different samples
C6_Witness ==
    \E t \in Threads :
        /\ op[t] = "fill" /\ Returned(t)
        /\ Len(given[t]) = MaxLen
        /\ \A i \in 1..MaxLen : out[t][i] # given[t][i]
        /\ out[t][1] # out[t][MaxLen]

\* the original expiration truncated to milliseconds, and the limit, written
\* out from the arguments of the call
MsOf(t) == expiration[t] \div TicksPerMs
LimitOf(t) == IF ratio[t] = 0 THEN 0 ELSE MsOf(t) \div ratio[t]
Jittered(t) == op[t] = "duration" /\ Returned(t) /\ LimitOf(t) # 0

\* C7 as stated: with nonzero limit the result is never negative, never
\* above the expiration, never below expiration - limit.
C7_AsStated ==
    \A t \in Threads :
        Jittered(t) =>
            /\ 0 <= ret[t]
            /\ ret[t] <= expiration[t]
            /\ ret[t] >= expiration[t] - LimitOf(t) * TicksPerMs

\* C7 amended: with nonzero limit the result is never negative, never above
\* the expiration, and never below milliseconds(expiration) - limit, the
\* expiration truncated to whole milliseconds less the limit (so it is
\* above expiration - limit - 1ms).
C7_DurationBounds ==
    \A t \in Threads :
        Jittered(t) =>
            /\ 0 <= ret[t]
            /\ ret[t] <= expiration[t]
            /\ ret[t] >= (MsOf(t) - LimitOf(t)) * TicksPerMs
            /\ ret[t] > expiration[t] - LimitOf(t) * TicksPerMs - TicksPerMs

\* duration returned the lowest value of its range for an expiration that
\* is no whole number of milliseconds
C7_Witness ==
    \E t \in Threads :
        /\ Jittered(t)
        /\ expiration[t] % TicksPerMs # 0
        /\ ret[t] = (MsOf(t) - LimitOf(t)) * TicksPerMs
        /\ LimitOf(t) > 1

\* C8: duration returns its expiration argument, tick for tick, when ratio
\* is 0 and when milliseconds(expiration) / ratio is 0.
C8_DegenerateUnchanged ==
    \A t \in Threads :
        op[t] = "duration" /\ pc[t] \in {"idle", "terminate"}
            /\ LimitOf(t) = 0 =>
                /\ Returned(t)
                /\ ret[t] = expiration[t]

\* duration(5ms + 1 tick, 10) returned: ratio nonzero, limit zero
C8_Witness ==
    \E t \in Threads :
        /\ op[t] = "duration" /\ Returned(t)
        /\ expiration[t] = 5 * TicksPerMs + 1 /\ ratio[t] = 10
        /\ ret[t] = expiration[t]

\* duration(e, 0) returned for an expiration with a fraction of a millisecond
C8_WitnessRatioZero ==
    \E t \in Threads :
        /\ op[t] = "duration" /\ Returned(t)
        /\ expiration[t] % TicksPerMs # 0 /\ ratio[t] = 0
        /\ expiration[t] > TicksPerMs

\* C9 as stated: when construction of the thread's source fails during a
\* sampling call, the caller observes a ResourceExhausted failure of that
\* call, the process goes on, no source is registered for the thread and a
\* buffer being filled is untouched.
C9_FailurePropagates ==
    \A t \in Threads :
        pc[t] = "terminate" =>
            /\ outcome[t] = "ResourceExhausted"
            /\ ~aborted
            /\ csrng[t] = NULL
            /\ op[t] = "fill" => out[t] = given[t]

\* C10: a call that needs no sample (duration with ratio 0 or limit 0, fill
\* of an empty buffer) changes neither the registry nor any source; a
\* duration with nonzero limit returns after exactly one draw and a fill of
\* N > 0 bytes after exactly N; every draw increments the count of the
\* drawing thread's own source and of no other.
NoSampleNeeded(t) ==
    \/ op[t] = "duration" /\ LimitOf(t) = 0
    \/ op[t] = "fill" /\ Len(given[t]) = 0

C10_State ==
    \A t \in Threads :
        Returned(t) =>
            /\ NoSampleNeeded(t) => Len(drawn[t]) = 0
            /\ op[t] = "duration" /\ LimitOf(t) # 0 => Len(drawn[t]) = 1
            /\ op[t] = "fill" => Len(drawn[t]) = Len(given[t])

C10_Step ==
    /\ \A t \in Threads :
           calls'[t] # calls[t] /\ pc'[t] = "idle" =>
               UNCHANGED <<csrng, state, creator, deletes, draws, handed,
                           constructions, ref>>
    /\ \A h \in Handles :
           draws'[h] # draws[h] =>
               /\ draws'[h] = draws[h] + 1
               /\ \E t \in Threads :
                      /\ pc[t] = "draw" /\ pc'[t] # "draw"
                      /\ Len(drawn'[t]) = Len(drawn[t]) + 1
                      /\ h = csrng[t] /\ creator[h] = t
                      /\ \A g \in Handles \ {h} : draws'[g] = draws[g]

C10_FrameEffects == [](C10_State) /\ [][C10_Step]_vars

\* a thread with no source returned from a degenerate duration call while
\* another thread's source has been drawn from
C10_Witness ==
    \E t, u \in Threads :
        /\ t # u
        /\ op[t] = "duration" /\ Returned(t) /\ ratio[t] # 0
        /\ LimitOf(t) = 0 /\ csrng[t] = NULL
        /\ csrng[u] # NULL /\ draws[csrng[u]] > 1

====
